---------------------------- MODULE Spec2Model ----------------------------
(***************************************************************************)
(* A model of the RESP frame codec of simple-redis (src/resp/mod.rs and    *)
(* src/resp/encode.rs).                                                    *)
(*                                                                         *)
(* A byte is a number in 0..255, a Vec<u8> a sequence of bytes, a String a *)
(* sequence of bytes that is valid UTF-8.  A frame is a pair               *)
(* <<variant, payload>>.  A call that may panic returns a record           *)
(* [ok, bytes]: ok = FALSE is the panic, and it unwinds through callers.   *)
(***************************************************************************)
EXTENDS Integers, Sequences, FiniteSets, TLC

VARIABLES
    overflow_checks,  \* the build profile: TRUE in a debug build, FALSE in release
    op,               \* the operation the last step performed
    input,            \* the frame that operation was given
    other,            \* the second frame of a comparison
    result,           \* what encode returned: [ok, bytes]
    vec,              \* the Vec<RespFrame> being built
    btree,            \* the BTreeMap<String, RespFrame> being built
    inserted,         \* history: the (key, value) pairs inserted into btree, in order
    cmp,              \* what partial_cmp returned
    decoded           \* what decode returned

vars == <<overflow_checks, op, input, other, result, vec, btree, inserted, cmp, decoded>>

----------------------------------------------------------------------------
(* Bytes and text *)

Byte == 0..255

\* The byte of an ASCII character used in the format strings of encode.rs.
Ord(c) ==
    CASE c = "\r" -> 13 [] c = "\n" -> 10
      [] c = "+" -> 43 [] c = "-" -> 45 [] c = ":" -> 58 [] c = "$" -> 36
      [] c = "!" -> 33 [] c = "*" -> 42 [] c = "_" -> 95 [] c = "#" -> 35
      [] c = "," -> 44 [] c = "%" -> 37 [] c = "~" -> 126
      [] c = "." -> 46 [] c = "e" -> 101 [] c = "t" -> 116 [] c = "f" -> 102
      [] c = "0" -> 48 [] c = "1" -> 49 [] c = "N" -> 78 [] c = "a" -> 97
      [] c = "i" -> 105 [] c = "n" -> 110
      [] c = "O" -> 79 [] c = "K" -> 75 [] c = "E" -> 69 [] c = "r" -> 114
      [] c = "g" -> 103 [] c = "h" -> 104 [] c = "l" -> 108 [] c = "o" -> 111
      [] c = "k" -> 107 [] c = "y" -> 121 [] c = "v" -> 118 [] c = "u" -> 117
      [] c = "b" -> 98 [] c = "c" -> 99 [] c = "2" -> 50

\* A literal: the bytes of a sequence of ASCII characters.
Lit(cs) == [i \in 1..Len(cs) |-> Ord(cs[i])]

CRLF == Lit(<<"\r", "\n">>)

\* The byte of a decimal digit.
DigitByte(d) == Ord("0") + d

\* A result of a call that returned, and the panic.
Ok(bs) == [ok |-> TRUE, bytes |-> bs]
Panic == [ok |-> FALSE, bytes |-> <<>>]

\* buff.extend_from_slice(&x.encode()): a panic in x.encode() unwinds.
Extend(buff, r) ==
    IF buff.ok /\ r.ok THEN Ok(buff.bytes \o r.bytes) ELSE Panic

RECURSIVE usize_to_string(_)
\* Display for usize: decimal, no sign, no leading zeros.
usize_to_string(n) ==
    IF n < 10 THEN <<DigitByte(n)>>
    ELSE usize_to_string(n \div 10) \o <<DigitByte(n % 10)>>

\* Whether b is a UTF-8 continuation byte 0x80..0xBF.
IsCont(b) == b >= 128 /\ b <= 191

RECURSIVE from_utf8_ok(_)
\* String::from_utf8(v).is_ok(): v is well-formed UTF-8 (no overlong forms,
\* no surrogates, nothing above U+10FFFF).
from_utf8_ok(v) ==
    IF v = <<>> THEN TRUE
    ELSE
      LET b == v[1]
          n == Len(v)
          w == IF b <= 127 THEN 1
               ELSE IF b >= 194 /\ b <= 223 THEN 2
               ELSE IF b >= 224 /\ b <= 239 THEN 3
               ELSE IF b >= 240 /\ b <= 244 THEN 4
               ELSE 0
      IN  /\ w > 0
          /\ n >= w
          /\ \A i \in 2..w : IsCont(v[i])
          /\ (b = 224) => v[2] >= 160
          /\ (b = 237) => v[2] <= 159
          /\ (b = 240) => v[2] >= 144
          /\ (b = 244) => v[2] <= 143
          /\ from_utf8_ok(SubSeq(v, w + 1, n))

----------------------------------------------------------------------------
(* i64: sign and magnitude, the magnitude in three limbs of nine decimal   *)
(* digits (most significant first), so that the full 64-bit range fits.    *)

LimbBase == 10^9

I64(neg, l2, l1, l0) == [neg |-> neg, mag |-> <<l2, l1, l0>>]

\* 2^63 = 9223372036854775808, the magnitude of i64::MIN.
MinMag == <<9, 223372036, 854775808>>
i64_MIN == [neg |-> TRUE, mag |-> MinMag]
i64_MAX == [neg |-> FALSE, mag |-> <<9, 223372036, 854775807>>]

\* The order of two magnitudes: "Less", "Equal" or "Greater".
MagCmp(a, b) ==
    IF a[1] # b[1] THEN (IF a[1] < b[1] THEN "Less" ELSE "Greater")
    ELSE IF a[2] # b[2] THEN (IF a[2] < b[2] THEN "Less" ELSE "Greater")
    ELSE IF a[3] # b[3] THEN (IF a[3] < b[3] THEN "Less" ELSE "Greater")
    ELSE "Equal"

\* The values an i64 can hold: -2^63 .. 2^63 - 1 (zero is not negative).
is_i64(v) ==
    /\ \A i \in 1..3 : v.mag[i] >= 0 /\ v.mag[i] < LimbBase
    /\ IF v.neg THEN v.mag # <<0, 0, 0>> /\ MagCmp(v.mag, MinMag) # "Greater"
       ELSE MagCmp(v.mag, MinMag) = "Less"

\* i64::abs: -self when self < 0.  The negation of i64::MIN overflows: a
\* build with overflow checks panics, one without wraps back to i64::MIN.
i64_abs(self) ==
    IF ~self.neg THEN [ok |-> TRUE, val |-> self]
    ELSE IF self.mag = MinMag
         THEN IF overflow_checks THEN [ok |-> FALSE, val |-> self]
              ELSE [ok |-> TRUE, val |-> self]
    ELSE [ok |-> TRUE, val |-> [neg |-> FALSE, mag |-> self.mag]]

RECURSIVE Pad9(_, _)
\* The k low decimal digits of a limb, zero padded.
Pad9(n, k) ==
    IF k = 0 THEN <<>> ELSE Pad9(n \div 10, k - 1) \o <<DigitByte(n % 10)>>

\* The decimal digits of a magnitude, no leading zeros.
u64_to_string(mag) ==
    IF mag[1] # 0
    THEN usize_to_string(mag[1]) \o Pad9(mag[2], 9) \o Pad9(mag[3], 9)
    ELSE IF mag[2] # 0 THEN usize_to_string(mag[2]) \o Pad9(mag[3], 9)
    ELSE usize_to_string(mag[3])

\* Display for i64: '-' for a negative value, then the magnitude.
i64_to_string(v) ==
    (IF v.neg THEN Lit(<<"-">>) ELSE <<>>) \o u64_to_string(v.mag)

----------------------------------------------------------------------------
(* f64.  A finite non-zero double is held as the shortest decimal that     *)
(* reads back to it, the form core::fmt prints from: digits d1..dn (d1 and *)
(* dn not 0) and an exponent, the value being 0.d1..dn * 10^exp.  Doubles  *)
(* of at most 15 significant digits are told apart by that decimal, and    *)
(* are ordered as their decimals are.                                      *)

NaN == [cls |-> "nan", neg |-> FALSE, digs |-> <<>>, exp |-> 0]
Inf(neg) == [cls |-> "inf", neg |-> neg, digs |-> <<>>, exp |-> 0]
Zero(neg) == [cls |-> "zero", neg |-> neg, digs |-> <<>>, exp |-> 0]
Num(neg, digs, exp) == [cls |-> "num", neg |-> neg, digs |-> digs, exp |-> exp]

\* The literals 1e+8 and 1e-8 of impl RespEncode for f64.
Lit_1e8 == Num(FALSE, <<1>>, 9)
Lit_1em8 == Num(FALSE, <<1>>, -7)

f64_abs(x) == [x EXCEPT !.neg = FALSE]

RECURSIVE DigCmp(_, _)
\* The order of two digit strings without trailing zeros, as fractions.
DigCmp(a, b) ==
    IF a = <<>> /\ b = <<>> THEN "Equal"
    ELSE IF a = <<>> THEN "Less"
    ELSE IF b = <<>> THEN "Greater"
    ELSE IF a[1] < b[1] THEN "Less"
    ELSE IF a[1] > b[1] THEN "Greater"
    ELSE DigCmp(Tail(a), Tail(b))

Reverse(o) ==
    CASE o = "Less" -> "Greater" [] o = "Greater" -> "Less" [] OTHER -> o

\* The order of the magnitudes of two doubles, neither NaN.
f64_mag_cmp(a, b) ==
    LET rank(x) == CASE x.cls = "zero" -> 0 [] x.cls = "num" -> 1 [] x.cls = "inf" -> 2
    IN  IF rank(a) # rank(b) THEN (IF rank(a) < rank(b) THEN "Less" ELSE "Greater")
        ELSE IF a.cls # "num" THEN "Equal"
        ELSE IF a.exp # b.exp THEN (IF a.exp < b.exp THEN "Less" ELSE "Greater")
        ELSE DigCmp(a.digs, b.digs)

\* PartialOrd for f64: "None" when either is NaN; -0.0 equals +0.0.
f64_partial_cmp(a, b) ==
    LET sgn(x) == IF x.cls = "zero" THEN 0 ELSE IF x.neg THEN -1 ELSE 1
    IN  IF a.cls = "nan" \/ b.cls = "nan" THEN "None"
        ELSE IF sgn(a) # sgn(b) THEN (IF sgn(a) < sgn(b) THEN "Less" ELSE "Greater")
        ELSE IF sgn(a) = 0 THEN "Equal"
        ELSE IF sgn(a) > 0 THEN f64_mag_cmp(a, b)
        ELSE Reverse(f64_mag_cmp(a, b))

f64_gt(a, b) == f64_partial_cmp(a, b) = "Greater"
f64_lt(a, b) == f64_partial_cmp(a, b) = "Less"

Zeros(n) == [i \in 1..n |-> DigitByte(0)]
DigitBytes(digs) == [i \in 1..Len(digs) |-> DigitByte(digs[i])]

\* The sign core::fmt writes for a float without the + flag: '-' for a
\* negative value (the negative zero too), nothing for NaN.
f64_sign(x) == IF x.cls # "nan" /\ x.neg THEN Lit(<<"-">>) ELSE <<>>

\* core::num::flt2dec::digits_to_dec_str with no minimum of fraction digits.
digits_to_dec_str(digs, exp) ==
    IF exp <= 0
    THEN Lit(<<"0", ".">>) \o Zeros(-exp) \o DigitBytes(digs)
    ELSE IF exp < Len(digs)
    THEN DigitBytes(SubSeq(digs, 1, exp)) \o Lit(<<".">>)
         \o DigitBytes(SubSeq(digs, exp + 1, Len(digs)))
    ELSE DigitBytes(digs) \o Zeros(exp - Len(digs))

\* core::num::flt2dec::digits_to_exp_str, lower case: d1[.d2..dn]e[-]x.
digits_to_exp_str(digs, exp) ==
    <<DigitByte(digs[1])>>
    \o (IF Len(digs) > 1
        THEN Lit(<<".">>) \o DigitBytes(SubSeq(digs, 2, Len(digs))) ELSE <<>>)
    \o Lit(<<"e">>)
    \o (IF exp - 1 < 0 THEN Lit(<<"-">>) \o usize_to_string(1 - exp)
        ELSE usize_to_string(exp - 1))

\* format!("{}", x) for f64.
f64_fmt_display(x) ==
    CASE x.cls = "nan" -> Lit(<<"N", "a", "N">>)
      [] x.cls = "inf" -> f64_sign(x) \o Lit(<<"i", "n", "f">>)
      [] x.cls = "zero" -> f64_sign(x) \o Lit(<<"0">>)
      [] x.cls = "num" -> f64_sign(x) \o digits_to_dec_str(x.digs, x.exp)

\* format!("{:e}", x) for f64.
f64_fmt_lower_exp(x) ==
    CASE x.cls = "nan" -> Lit(<<"N", "a", "N">>)
      [] x.cls = "inf" -> f64_sign(x) \o Lit(<<"i", "n", "f">>)
      [] x.cls = "zero" -> f64_sign(x) \o Lit(<<"0", "e", "0">>)
      [] x.cls = "num" -> f64_sign(x) \o digits_to_exp_str(x.digs, x.exp)

----------------------------------------------------------------------------
(* The frame variants and their constructors (mod.rs) *)

Frame(variant, payload) == <<variant, payload>>
Variant(f) == f[1]
Payload(f) == f[2]

\* impl From<String> / From<&str> for SimpleString: the text is wrapped as given.
SimpleString_from(s) == Frame("SimpleString", s)
\* impl From<String> / From<&str> for SimpleError: the text is wrapped as given.
SimpleError_from(s) == Frame("SimpleError", s)
\* impl From<Vec<u8>> / From<&[u8]> for BulkString.
BulkString_from(v) == Frame("BulkString", v)
\* impl From<Vec<RespFrame>> for Array.
Array_from(v) == Frame("Array", v)
\* impl From<BTreeMap<String, RespFrame>> for Map.
Map_from(m) == Frame("Map", m)
\* impl From<BTreeMap<String, RespFrame>> for Set.
Set_from(m) == Frame("Set", m)
Integer(n) == Frame("Integer", n)
Double(x) == Frame("Double", x)
Boolean(b) == Frame("Boolean", b)
BulkError(s) == Frame("BulkError", s)
Null == Frame("Null", <<>>)
NullArray == Frame("NullArray", <<>>)
NullBulkString == Frame("NullBulkString", <<>>)

----------------------------------------------------------------------------
(* impl RespEncode (encode.rs) *)

\* "+{}\r\n"
SimpleString_encode(s) == Ok(Lit(<<"+">>) \o s \o CRLF)

\* "-{}\r\n"
SimpleError_encode(s) == Ok(Lit(<<"-">>) \o s \o CRLF)

\* ":{}{}\r\n" with the sign and self.abs()
i64_encode(self) ==
    LET sign == IF self.neg THEN Lit(<<"-">>) ELSE Lit(<<"+">>)
        a == i64_abs(self)
    IN  IF a.ok THEN Ok(Lit(<<":">>) \o sign \o i64_to_string(a.val) \o CRLF)
        ELSE Panic

\* "${}\r\n{}\r\n" with self.len() and String::from_utf8(self.0).unwrap()
BulkString_encode(v) ==
    IF from_utf8_ok(v)
    THEN Ok(Lit(<<"$">>) \o usize_to_string(Len(v)) \o CRLF \o v \o CRLF)
    ELSE Panic

\* "!{}\r\n", the bytes of the text, "\r\n"
BulkError_encode(s) ==
    Ok(Lit(<<"!">>) \o usize_to_string(Len(s)) \o CRLF \o s \o CRLF)

RespNullBulkString_encode == Ok(Lit(<<"$", "-", "1">>) \o CRLF)
RespNullArray_encode == Ok(Lit(<<"*", "-", "1">>) \o CRLF)
RespNull_encode == Ok(Lit(<<"_">>) \o CRLF)

\* "#{}\r\n" with t or f
bool_encode(b) == Ok(Lit(<<"#">>) \o (IF b THEN Lit(<<"t">>) ELSE Lit(<<"f">>)) \o CRLF)

\* ",{:e}\r\n" when self.abs() > 1e+8 || self.abs() < 1e-8, else ",{}\r\n"
f64_encode(self) ==
    IF f64_gt(f64_abs(self), Lit_1e8) \/ f64_lt(f64_abs(self), Lit_1em8)
    THEN Ok(Lit(<<",">>) \o f64_fmt_lower_exp(self) \o CRLF)
    ELSE Ok(Lit(<<",">>) \o f64_fmt_display(self) \o CRLF)

RECURSIVE RespFrame_encode(_)
RECURSIVE Array_encode(_)
RECURSIVE Map_encode(_)
RECURSIVE Set_encode(_)
RECURSIVE EncodeEach(_, _, _)

\* for frame in self.0 { buff.extend_from_slice(&frame.encode()) }, from the
\* i-th element on.
EncodeEach(buff, v, i) ==
    IF i > Len(v) THEN buff
    ELSE EncodeEach(Extend(buff, RespFrame_encode(v[i])), v, i + 1)

\* A bug Array_encode could have: the CRLF that ends a bulk payload is
\* written after the elements too.
Array_encode_terminated(v) ==
    Extend(EncodeEach(Ok(Lit(<<"*">>) \o usize_to_string(Len(v)) \o CRLF), v, 1), Ok(CRLF))

\* "*{}\r\n" with self.0.len(), then every element's encoding
Array_encode(v) ==
    EncodeEach(Ok(Lit(<<"*">>) \o usize_to_string(Len(v)) \o CRLF), v, 1)

RECURSIVE EncodeEntries(_, _, _)
\* for (key, value) in self.0 { SimpleString(key).encode(); value.encode() }
EncodeEntries(buff, m, i) ==
    IF i > Len(m) THEN buff
    ELSE EncodeEntries(
           Extend(Extend(buff, SimpleString_encode(m[i][1])), RespFrame_encode(m[i][2])),
           m, i + 1)

\* A bug Map_encode could have: the entries are written last key first.
Map_encode_reversed(m) ==
    EncodeEntries(Ok(Lit(<<"%">>) \o usize_to_string(Len(m)) \o CRLF),
                  [i \in 1..Len(m) |-> m[Len(m) + 1 - i]], 1)

\* "%{}\r\n" with self.len(), then every entry in the map's iteration order
Map_encode(m) ==
    EncodeEntries(Ok(Lit(<<"%">>) \o usize_to_string(Len(m)) \o CRLF), m, 1)

RECURSIVE EncodeValues(_, _, _)
\* for frame in self.0 { buff.extend_from_slice(&frame.1.encode()) }
EncodeValues(buff, m, i) ==
    IF i > Len(m) THEN buff
    ELSE EncodeValues(Extend(buff, RespFrame_encode(m[i][2])), m, i + 1)

\* "~{}\r\n" with self.len(), then every value in the map's iteration order
Set_encode(m) ==
    EncodeValues(Ok(Lit(<<"~">>) \o usize_to_string(Len(m)) \o CRLF), m, 1)

\* #[enum_dispatch(RespEncode)]: the variant's own encode.
RespFrame_encode(f) ==
    CASE Variant(f) = "SimpleString" -> SimpleString_encode(Payload(f))
      [] Variant(f) = "SimpleError" -> SimpleError_encode(Payload(f))
      [] Variant(f) = "Integer" -> i64_encode(Payload(f))
      [] Variant(f) = "BulkString" -> BulkString_encode(Payload(f))
      [] Variant(f) = "Array" -> Array_encode(Payload(f))
      [] Variant(f) = "Null" -> RespNull_encode
      [] Variant(f) = "NullArray" -> RespNullArray_encode
      [] Variant(f) = "NullBulkString" -> RespNullBulkString_encode
      [] Variant(f) = "Boolean" -> bool_encode(Payload(f))
      [] Variant(f) = "Double" -> f64_encode(Payload(f))
      [] Variant(f) = "BulkError" -> BulkError_encode(Payload(f))
      [] Variant(f) = "Map" -> Map_encode(Payload(f))
      [] Variant(f) = "Set" -> Set_encode(Payload(f))

----------------------------------------------------------------------------
(* #[derive(PartialEq, PartialOrd)] (mod.rs) *)

\* The position of a variant in enum RespFrame.
discriminant(f) ==
    CASE Variant(f) = "SimpleString" -> 0
      [] Variant(f) = "SimpleError" -> 1
      [] Variant(f) = "Integer" -> 2
      [] Variant(f) = "BulkString" -> 3
      [] Variant(f) = "Array" -> 4
      [] Variant(f) = "Null" -> 5
      [] Variant(f) = "NullArray" -> 6
      [] Variant(f) = "NullBulkString" -> 7
      [] Variant(f) = "Boolean" -> 8
      [] Variant(f) = "Double" -> 9
      [] Variant(f) = "BulkError" -> 10
      [] Variant(f) = "Map" -> 11
      [] Variant(f) = "Set" -> 12

IntCmp(a, b) == IF a < b THEN "Less" ELSE IF a > b THEN "Greater" ELSE "Equal"

RECURSIVE Bytes_cmp(_, _)
\* Ord for String and Vec<u8>: byte by byte, a proper prefix first.
Bytes_cmp(a, b) ==
    IF a = <<>> /\ b = <<>> THEN "Equal"
    ELSE IF a = <<>> THEN "Less"
    ELSE IF b = <<>> THEN "Greater"
    ELSE IF a[1] # b[1] THEN IntCmp(a[1], b[1])
    ELSE Bytes_cmp(Tail(a), Tail(b))

\* Ord for i64.
i64_cmp(a, b) ==
    IF a.neg # b.neg THEN (IF a.neg THEN "Less" ELSE "Greater")
    ELSE IF a.neg THEN Reverse(MagCmp(a.mag, b.mag))
    ELSE MagCmp(a.mag, b.mag)

\* Ord for bool: false before true.
bool_cmp(a, b) == IntCmp(IF a THEN 1 ELSE 0, IF b THEN 1 ELSE 0)

\* PartialEq for f64: NaN equals nothing, -0.0 equals +0.0.
f64_eq(a, b) == f64_partial_cmp(a, b) = "Equal"

RECURSIVE RespFrame_partial_cmp(_, _)
RECURSIVE Vec_partial_cmp(_, _)
RECURSIVE BTreeMap_partial_cmp(_, _)

\* A bug Vec_partial_cmp could have: the elements are compared in pairs and
\* the lengths are not, so a proper prefix compares Equal.
Vec_partial_cmp_zipped(a, b) ==
    IF a = <<>> \/ b = <<>> THEN "Equal"
    ELSE LET c == RespFrame_partial_cmp(a[1], b[1])
         IN  IF c # "Equal" THEN c ELSE Vec_partial_cmp(Tail(a), Tail(b))

\* PartialOrd for Vec<RespFrame>: the first pair of elements that does not
\* compare Equal decides (None included), then the lengths.
Vec_partial_cmp(a, b) ==
    IF a = <<>> \/ b = <<>> THEN IntCmp(Len(a), Len(b))
    ELSE LET c == RespFrame_partial_cmp(a[1], b[1])
         IN  IF c # "Equal" THEN c ELSE Vec_partial_cmp(Tail(a), Tail(b))

\* PartialOrd for BTreeMap<String, RespFrame>: the entries in key order,
\* each compared as a (key, value) pair.
BTreeMap_partial_cmp(a, b) ==
    IF a = <<>> \/ b = <<>> THEN IntCmp(Len(a), Len(b))
    ELSE LET k == Bytes_cmp(a[1][1], b[1][1])
             c == IF k # "Equal" THEN k ELSE RespFrame_partial_cmp(a[1][2], b[1][2])
         IN  IF c # "Equal" THEN c ELSE BTreeMap_partial_cmp(Tail(a), Tail(b))

\* The derived PartialOrd of RespFrame: the variants' positions first, then
\* the payloads of two frames of one variant.
RespFrame_partial_cmp(a, b) ==
    IF discriminant(a) # discriminant(b)
    THEN IntCmp(discriminant(a), discriminant(b))
    ELSE CASE Variant(a) \in {"SimpleString", "SimpleError", "BulkString", "BulkError"} ->
                Bytes_cmp(Payload(a), Payload(b))
           [] Variant(a) = "Integer" -> i64_cmp(Payload(a), Payload(b))
           [] Variant(a) = "Array" -> Vec_partial_cmp(Payload(a), Payload(b))
           [] Variant(a) \in {"Null", "NullArray", "NullBulkString"} -> "Equal"
           [] Variant(a) = "Boolean" -> bool_cmp(Payload(a), Payload(b))
           [] Variant(a) = "Double" -> f64_partial_cmp(Payload(a), Payload(b))
           [] Variant(a) \in {"Map", "Set"} -> BTreeMap_partial_cmp(Payload(a), Payload(b))

RECURSIVE RespFrame_eq(_, _)
\* The derived PartialEq of RespFrame: the same variant and equal payloads.
RespFrame_eq(a, b) ==
    /\ Variant(a) = Variant(b)
    /\ CASE Variant(a) = "Double" -> f64_eq(Payload(a), Payload(b))
         [] Variant(a) = "Array" ->
              /\ Len(Payload(a)) = Len(Payload(b))
              /\ \A i \in 1..Len(Payload(a)) : RespFrame_eq(Payload(a)[i], Payload(b)[i])
         [] Variant(a) \in {"Map", "Set"} ->
              /\ Len(Payload(a)) = Len(Payload(b))
              /\ \A i \in 1..Len(Payload(a)) :
                    /\ Payload(a)[i][1] = Payload(b)[i][1]
                    /\ RespFrame_eq(Payload(a)[i][2], Payload(b)[i][2])
         [] OTHER -> Payload(a) = Payload(b)

----------------------------------------------------------------------------
(* BTreeMap<String, RespFrame>: the entries <<key, value>> in ascending key *)
(* order, one entry per key.                                               *)

BTreeMap_new == <<>>

RECURSIVE BTreeMap_insert(_, _, _)
\* BTreeMap::insert: the value of a key already present is replaced, a new
\* key is put at its place in the key order.
BTreeMap_insert(m, k, v) ==
    IF m = <<>> THEN <<<<k, v>>>>
    ELSE LET c == Bytes_cmp(k, m[1][1])
         IN  IF c = "Less" THEN <<<<k, v>>>> \o m
             ELSE IF c = "Equal" THEN <<<<m[1][1], v>>>> \o Tail(m)
             ELSE <<m[1]>> \o BTreeMap_insert(Tail(m), k, v)

\* Vec::push.
Vec_push(v, x) == Append(v, x)

----------------------------------------------------------------------------
(* The decoder (mod decode; trait RespDecode).  Its three outcomes are     *)
(* Complete with a frame and the index after the last byte consumed,       *)
(* Incomplete, and Malformed.                                              *)

\* The configured limits on a declared length or count and on nesting.
MaxDeclaredLen == 2^29
MaxNestingDepth == 32

Complete(f, next) == [kind |-> "Complete", frame |-> f, next |-> next]
Incomplete == [kind |-> "Incomplete", frame |-> Null, next |-> 0]
Malformed == [kind |-> "Malformed", frame |-> Null, next |-> 0]

IsDigit(b) == b >= Ord("0") /\ b <= Ord("0") + 9
AllDigits(bs) == \A i \in 1..Len(bs) : IsDigit(bs[i])

\* The index of the first CRLF of data at or after from, 0 when there is none.
find_crlf(data, from) ==
    LET S == {i \in from..(Len(data) - 1) : data[i] = Ord("\r") /\ data[i + 1] = Ord("\n")}
    IN  IF S = {} THEN 0 ELSE CHOOSE i \in S : \A j \in S : i <= j

\* The index of the first byte of bs that is in S, 0 when there is none.
FirstIdx(bs, S) ==
    LET I == {i \in 1..Len(bs) : bs[i] \in S}
    IN  IF I = {} THEN 0 ELSE CHOOSE i \in I : \A j \in I : i <= j

RECURSIVE DecVal(_)
\* The number a string of at most nine decimal digits writes.
DecVal(bs) ==
    IF bs = <<>> THEN 0
    ELSE 10 * DecVal(SubSeq(bs, 1, Len(bs) - 1)) + (bs[Len(bs)] - Ord("0"))

RECURSIVE StripZeros(_)
\* A digit string without its leading zeros.
StripZeros(bs) ==
    IF bs # <<>> /\ bs[1] = Ord("0") THEN StripZeros(Tail(bs)) ELSE bs

RECURSIVE StripTrailingZeros(_)
StripTrailingZeros(bs) ==
    IF bs # <<>> /\ bs[Len(bs)] = Ord("0")
    THEN StripTrailingZeros(SubSeq(bs, 1, Len(bs) - 1)) ELSE bs

\* A length or count line: decimal digits, or the -1 of the legacy nulls.
parse_len(line) ==
    IF line = Lit(<<"-", "1">>) THEN [ok |-> TRUE, null |-> TRUE, val |-> 0]
    ELSE IF line # <<>> /\ AllDigits(line) /\ Len(StripZeros(line)) <= 9
    THEN [ok |-> TRUE, null |-> FALSE, val |-> DecVal(StripZeros(line))]
    ELSE [ok |-> FALSE, null |-> FALSE, val |-> 0]

\* An integer line: an optional sign, then decimal digits within i64.
parse_i64(line) ==
    LET signed == line # <<>> /\ line[1] \in {Ord("+"), Ord("-")}
        neg == signed /\ line[1] = Ord("-")
        ds == IF signed THEN Tail(line) ELSE line
        d == StripZeros(ds)
        P == Zeros(27 - Len(d)) \o d
        mag == <<DecVal(SubSeq(P, 1, 9)), DecVal(SubSeq(P, 10, 18)), DecVal(SubSeq(P, 19, 27))>>
        v == [neg |-> neg /\ mag # <<0, 0, 0>>, mag |-> mag]
    IN  IF ds # <<>> /\ AllDigits(ds) /\ Len(d) <= 19 /\ is_i64(v)
        THEN [ok |-> TRUE, val |-> v]
        ELSE [ok |-> FALSE, val |-> I64(FALSE, 0, 0, 0)]

\* A double line: [sign] digits [. digits] [e [sign] digits], or inf or nan.
parse_f64(line) ==
    LET signed == line # <<>> /\ line[1] \in {Ord("+"), Ord("-")}
        neg == signed /\ line[1] = Ord("-")
        body == IF signed THEN Tail(line) ELSE line
        ei == FirstIdx(body, {Ord("e"), Ord("E")})
        mant == IF ei = 0 THEN body ELSE SubSeq(body, 1, ei - 1)
        ex == IF ei = 0 THEN <<>> ELSE SubSeq(body, ei + 1, Len(body))
        exsigned == ex # <<>> /\ ex[1] \in {Ord("+"), Ord("-")}
        exds == IF exsigned THEN Tail(ex) ELSE ex
        exok == ei = 0 \/ (exds # <<>> /\ AllDigits(exds) /\ Len(StripZeros(exds)) <= 4)
        e == IF ei = 0 THEN 0
             ELSE IF exsigned /\ ex[1] = Ord("-") THEN 0 - DecVal(StripZeros(exds))
             ELSE DecVal(StripZeros(exds))
        pi == FirstIdx(mant, {Ord(".")})
        intd == IF pi = 0 THEN mant ELSE SubSeq(mant, 1, pi - 1)
        fracd == IF pi = 0 THEN <<>> ELSE SubSeq(mant, pi + 1, Len(mant))
        all == intd \o fracd
        lead == Len(all) - Len(StripZeros(all))
        sig == StripTrailingZeros(StripZeros(all))
        digs == [i \in 1..Len(sig) |-> sig[i] - Ord("0")]
    IN  IF body = Lit(<<"i", "n", "f">>) THEN [ok |-> TRUE, val |-> Inf(neg)]
        ELSE IF body \in {Lit(<<"N", "a", "N">>), Lit(<<"n", "a", "n">>)}
        THEN [ok |-> TRUE, val |-> NaN]
        ELSE IF all # <<>> /\ AllDigits(all) /\ exok
        THEN [ok |-> TRUE,
              val |-> IF sig = <<>> THEN Zero(neg)
                      ELSE Num(neg, digs, Len(intd) - lead + e)]
        ELSE [ok |-> FALSE, val |-> NaN]

RECURSIVE decode_at(_, _, _)
RECURSIVE decode_children(_, _, _, _, _)
RECURSIVE decode_entries(_, _, _, _, _)
RECURSIVE decode_elements(_, _, _, _, _)

\* n more child frames from pos on, after the frames of acc.
decode_children(data, pos, n, depth, acc) ==
    IF n = 0 THEN Complete(Array_from(acc), pos)
    ELSE LET c == decode_at(data, pos, depth + 1)
         IN  IF c.kind # "Complete" THEN c
             ELSE decode_children(data, c.next, n - 1, depth, Append(acc, c.frame))

\* n more (key, value) pairs of a map from pos on: a key is a SimpleString.
decode_entries(data, pos, n, depth, acc) ==
    IF n = 0 THEN Complete(Map_from(acc), pos)
    ELSE LET k == decode_at(data, pos, depth + 1)
         IN  IF k.kind # "Complete" THEN k
             ELSE IF Variant(k.frame) # "SimpleString" THEN Malformed
             ELSE LET v == decode_at(data, k.next, depth + 1)
                  IN  IF v.kind # "Complete" THEN v
                      ELSE decode_entries(data, v.next, n - 1, depth,
                                          BTreeMap_insert(acc, Payload(k.frame), v.frame))

\* n more elements of a set from pos on.  An element is kept under the bytes
\* it was read from, so that equal elements are held once, in a fixed order.
decode_elements(data, pos, n, depth, acc) ==
    IF n = 0 THEN Complete(Set_from(acc), pos)
    ELSE LET c == decode_at(data, pos, depth + 1)
         IN  IF c.kind # "Complete" THEN c
             ELSE decode_elements(data, c.next, n - 1, depth,
                                  BTreeMap_insert(acc, SubSeq(data, pos, c.next - 1), c.frame))

\* One frame from data[pos..], depth aggregates deep.
decode_at(data, pos, depth) ==
    IF pos > Len(data) THEN Incomplete
    ELSE IF depth > MaxNestingDepth THEN Malformed
    ELSE
      LET tag == data[pos]
          i == find_crlf(data, pos + 1)
          line == SubSeq(data, pos + 1, i - 1)
          next == i + 2
          known == tag \in {Ord("+"), Ord("-"), Ord(":"), Ord("#"), Ord("_"), Ord(","),
                            Ord("$"), Ord("!"), Ord("*"), Ord("%"), Ord("~")}
          n == parse_len(line)
          bulk(make, text) ==
            IF ~n.ok \/ n.null \/ n.val > MaxDeclaredLen THEN Malformed
            ELSE IF Len(data) < next + n.val + 1 THEN Incomplete
            ELSE IF SubSeq(data, next + n.val, next + n.val + 1) # CRLF THEN Malformed
            ELSE LET payload == SubSeq(data, next, next + n.val - 1)
                 IN  IF text /\ ~from_utf8_ok(payload) THEN Malformed
                     ELSE Complete(Frame(make, payload), next + n.val + 2)
      IN  IF ~known THEN Malformed
          ELSE IF i = 0 THEN Incomplete
          ELSE CASE tag = Ord("+") ->
                      IF from_utf8_ok(line) THEN Complete(SimpleString_from(line), next)
                      ELSE Malformed
                 [] tag = Ord("-") ->
                      IF from_utf8_ok(line) THEN Complete(SimpleError_from(line), next)
                      ELSE Malformed
                 [] tag = Ord(":") ->
                      IF parse_i64(line).ok THEN Complete(Integer(parse_i64(line).val), next)
                      ELSE Malformed
                 [] tag = Ord("#") ->
                      IF line = Lit(<<"t">>) THEN Complete(Boolean(TRUE), next)
                      ELSE IF line = Lit(<<"f">>) THEN Complete(Boolean(FALSE), next)
                      ELSE Malformed
                 [] tag = Ord("_") ->
                      IF line = <<>> THEN Complete(Null, next) ELSE Malformed
                 [] tag = Ord(",") ->
                      IF parse_f64(line).ok THEN Complete(Double(parse_f64(line).val), next)
                      ELSE Malformed
                 [] tag = Ord("$") ->
                      IF n.ok /\ n.null THEN Complete(NullBulkString, next)
                      ELSE bulk("BulkString", FALSE)
                 [] tag = Ord("!") -> bulk("BulkError", TRUE)
                 [] tag = Ord("*") ->
                      IF n.ok /\ n.null THEN Complete(NullArray, next)
                      ELSE IF ~n.ok \/ n.val > MaxDeclaredLen THEN Malformed
                      ELSE decode_children(data, next, n.val, depth, <<>>)
                 [] tag = Ord("%") ->
                      IF ~n.ok \/ n.null \/ n.val > MaxDeclaredLen THEN Malformed
                      ELSE decode_entries(data, next, n.val, depth, BTreeMap_new)
                 [] tag = Ord("~") ->
                      IF ~n.ok \/ n.null \/ n.val > MaxDeclaredLen THEN Malformed
                      ELSE decode_elements(data, next, n.val, depth, BTreeMap_new)

\* decode(data): the frame at the front of data and the bytes it took.
decode(data) ==
    LET r == decode_at(data, 1, 0)
    IN  [kind |-> r.kind, frame |-> r.frame,
         consumed |-> IF r.kind = "Complete" THEN r.next - 1 ELSE 0]

----------------------------------------------------------------------------
(* The inputs the operations are applied to *)

MaxBytes == 2      \* the longest byte payload and text
MaxExp == 10       \* the decimal exponents of the doubles: -MaxExp..MaxExp
MaxArray == 2      \* the most elements pushed onto one Vec
MaxNest == 2       \* the most times a Vec is nested into another
MaxInserts == 3    \* the most insertions into one BTreeMap

\* 'a', CR, LF, a byte no UTF-8 text holds, and the two bytes of U+00E9.
SampleBytes == {Ord("a"), Ord("\r"), Ord("\n"), 255, 195, 169}

ByteSeqs == UNION {[1..n -> SampleBytes] : n \in 0..MaxBytes}

\* A String holds valid UTF-8, whatever built it.
Strings == {s \in ByteSeqs : from_utf8_ok(s)}

I64s ==
    {v \in [neg : BOOLEAN,
            mag : {0, 9} \X {0, 223372036} \X {0, 123, 854775807, 854775808}] :
        is_i64(v)}

F64s ==
    {NaN, Inf(FALSE), Inf(TRUE), Zero(FALSE), Zero(TRUE)}
    \cup {Num(neg, d, e) : neg \in BOOLEAN,
                           d \in {<<1>>, <<1, 2, 3, 4, 5, 6>>, <<9, 9>>},
                           e \in (0 - MaxExp)..MaxExp}

\* The elements pushed onto a Vec<RespFrame>.
Elements ==
    {BulkString_from(Lit(<<"a">>)), BulkString_from(<<255>>), Integer(I64(TRUE, 0, 0, 123))}

\* The keys and values inserted into a BTreeMap<String, RespFrame>.
Keys == {Lit(<<"a">>), Lit(<<"a", "b">>), Lit(<<"b">>)}
Values == {BulkString_from(Lit(<<"a">>)), BulkString_from(<<255>>), Null}

\* The frames compared with one another.
CmpFrames ==
    {SimpleString_from(<<>>), SimpleString_from(Lit(<<"a">>)), SimpleError_from(Lit(<<"a">>)),
     Integer(i64_MIN), Integer(I64(TRUE, 0, 0, 123)), Integer(I64(FALSE, 0, 0, 0)),
     Integer(i64_MAX),
     BulkString_from(Lit(<<"a">>)), BulkString_from(<<255>>),
     Array_from(<<>>), Array_from(<<Null>>), Array_from(<<Double(NaN)>>),
     Array_from(<<Integer(I64(FALSE, 0, 0, 0))>>),
     Array_from(<<Integer(I64(FALSE, 0, 0, 0)), Double(NaN)>>),
     Array_from(<<Integer(I64(FALSE, 0, 0, 0)), Null>>),
     Null, NullArray, NullBulkString, Boolean(FALSE), Boolean(TRUE),
     Double(NaN), Double(Inf(FALSE)), Double(Inf(TRUE)), Double(Zero(FALSE)),
     Double(Zero(TRUE)), Double(Num(FALSE, <<1, 5>>, 1)), Double(Num(TRUE, <<1, 5>>, 1)),
     Double(Num(FALSE, <<1>>, 9)),
     BulkError(Lit(<<"a">>)),
     Map_from(<<>>), Map_from(<<<<Lit(<<"a">>), Null>>>>),
     Map_from(<<<<Lit(<<"a">>), Double(NaN)>>>>), Map_from(<<<<Lit(<<"b">>), Null>>>>),
     Map_from(<<<<Lit(<<"a">>), Null>>, <<Lit(<<"b">>), Null>>>>),
     Set_from(<<>>), Set_from(<<<<Lit(<<"a">>), Null>>>>),
     Set_from(<<<<Lit(<<"a">>), Double(NaN)>>>>)}

RECURSIVE Depth(_)
\* How deep the arrays of a frame nest.
Depth(f) ==
    IF Variant(f) # "Array" THEN 0
    ELSE LET D == {Depth(Payload(f)[i]) : i \in 1..Len(Payload(f))}
         IN  1 + (IF D = {} THEN 0 ELSE CHOOSE d \in D : \A e \in D : e <= d)

----------------------------------------------------------------------------
(* The state machine: a caller of the codec.  The codec keeps no state      *)
(* between calls, so the caller makes each call from a fresh start (New):  *)
(* it builds at most one collection, encodes one frame, and may decode the *)
(* bytes it got.                                                           *)

NoResult == [ok |-> TRUE, bytes |-> <<>>]
NoDecode == [kind |-> "None", frame |-> Null, consumed |-> 0]

EncodeOps ==
    {"SimpleString_encode", "SimpleError_encode", "i64_encode", "BulkString_encode",
     "BulkError_encode", "Array_encode", "RespNull_encode", "RespNullArray_encode",
     "RespNullBulkString_encode", "bool_encode", "f64_encode", "Map_encode", "Set_encode"}

Init ==
    /\ overflow_checks \in BOOLEAN
    /\ op = "new"
    /\ input = Null
    /\ other = Null
    /\ result = NoResult
    /\ vec = <<>>
    /\ btree = BTreeMap_new
    /\ inserted = <<>>
    /\ cmp = "-"
    /\ decoded = NoDecode

\* What a call of encode leaves: the frame it was given and what it returned.
Encoded(o, f, r) ==
    /\ op' = o
    /\ input' = f
    /\ result' = r
    /\ other' = Null
    /\ cmp' = "-"
    /\ decoded' = NoDecode
    /\ UNCHANGED overflow_checks

\* SimpleString::from(s).encode()
EncodeSimpleString ==
    /\ op = "new"
    /\ \E s \in Strings :
        /\ Encoded("SimpleString_encode", SimpleString_from(s), SimpleString_encode(s))
        /\ vec' = <<>> /\ btree' = BTreeMap_new /\ inserted' = <<>>

\* SimpleError::from(s).encode()
EncodeSimpleError ==
    /\ op = "new"
    /\ \E s \in Strings :
        /\ Encoded("SimpleError_encode", SimpleError_from(s), SimpleError_encode(s))
        /\ vec' = <<>> /\ btree' = BTreeMap_new /\ inserted' = <<>>

\* n.encode() for an i64
EncodeInteger ==
    /\ op = "new"
    /\ \E n \in I64s :
        /\ Encoded("i64_encode", Integer(n), i64_encode(n))
        /\ vec' = <<>> /\ btree' = BTreeMap_new /\ inserted' = <<>>

\* BulkString::from(v).encode()
EncodeBulkString ==
    /\ op = "new"
    /\ \E v \in ByteSeqs :
        /\ Encoded("BulkString_encode", BulkString_from(v), BulkString_encode(v))
        /\ vec' = <<>> /\ btree' = BTreeMap_new /\ inserted' = <<>>

\* BulkError(s).encode()
EncodeBulkError ==
    /\ op = "new"
    /\ \E s \in Strings :
        /\ Encoded("BulkError_encode", BulkError(s), BulkError_encode(s))
        /\ vec' = <<>> /\ btree' = BTreeMap_new /\ inserted' = <<>>

EncodeNull ==
    /\ op = "new"
    /\ Encoded("RespNull_encode", Null, RespNull_encode)
    /\ vec' = <<>> /\ btree' = BTreeMap_new /\ inserted' = <<>>

EncodeNullArray ==
    /\ op = "new"
    /\ Encoded("RespNullArray_encode", NullArray, RespNullArray_encode)
    /\ vec' = <<>> /\ btree' = BTreeMap_new /\ inserted' = <<>>

EncodeNullBulkString ==
    /\ op = "new"
    /\ Encoded("RespNullBulkString_encode", NullBulkString, RespNullBulkString_encode)
    /\ vec' = <<>> /\ btree' = BTreeMap_new /\ inserted' = <<>>

\* b.encode() for a bool
EncodeBoolean ==
    /\ op = "new"
    /\ \E b \in BOOLEAN :
        /\ Encoded("bool_encode", Boolean(b), bool_encode(b))
        /\ vec' = <<>> /\ btree' = BTreeMap_new /\ inserted' = <<>>

\* x.encode() for an f64
EncodeDouble ==
    /\ op = "new"
    /\ \E x \in F64s :
        /\ Encoded("f64_encode", Double(x), f64_encode(x))
        /\ vec' = <<>> /\ btree' = BTreeMap_new /\ inserted' = <<>>

\* Vec::new() and BTreeMap::new(): the caller starts a new collection.
New ==
    /\ op # "new"
    /\ op' = "new"
    /\ input' = Null /\ other' = Null /\ result' = NoResult
    /\ cmp' = "-" /\ decoded' = NoDecode
    /\ vec' = <<>> /\ btree' = BTreeMap_new /\ inserted' = <<>>
    /\ UNCHANGED overflow_checks

\* vec.push(f)
Push ==
    /\ op \in {"new", "push", "wrap"}
    /\ Len(vec) < MaxArray
    /\ \E f \in Elements : vec' = Vec_push(vec, f)
    /\ op' = "push"
    /\ UNCHANGED <<overflow_checks, input, other, result, btree, inserted, cmp, decoded>>

\* vec = vec![RespFrame::Array(Array::from(vec))]: the array becomes the one
\* element of a new Vec.
Wrap ==
    /\ op \in {"new", "push", "wrap"}
    /\ Depth(Array_from(vec)) <= MaxNest
    /\ vec' = <<Array_from(vec)>>
    /\ op' = "wrap"
    /\ UNCHANGED <<overflow_checks, input, other, result, btree, inserted, cmp, decoded>>

\* Array::from(vec).encode()
EncodeArray ==
    /\ op \in {"new", "push", "wrap"}
    /\ Encoded("Array_encode", Array_from(vec), Array_encode(vec))
    /\ vec' = <<>> /\ btree' = BTreeMap_new /\ inserted' = <<>>

\* map.insert(k, v)
Insert ==
    /\ op \in {"new", "insert"}
    /\ Len(inserted) < MaxInserts
    /\ \E k \in Keys, v \in Values :
          /\ btree' = BTreeMap_insert(btree, k, v)
          /\ inserted' = Append(inserted, <<k, v>>)
    /\ op' = "insert"
    /\ UNCHANGED <<overflow_checks, input, other, result, vec, cmp, decoded>>

\* Map::from(map).encode(): the map is moved into the frame and consumed.
EncodeMap ==
    /\ op \in {"new", "insert"}
    /\ Encoded("Map_encode", Map_from(btree), Map_encode(btree))
    /\ vec' = <<>> /\ btree' = BTreeMap_new
    /\ UNCHANGED inserted

\* Set::from(map).encode(): the map is moved into the frame and consumed.
EncodeSet ==
    /\ op \in {"new", "insert"}
    /\ Encoded("Set_encode", Set_from(btree), Set_encode(btree))
    /\ vec' = <<>> /\ btree' = BTreeMap_new
    /\ UNCHANGED inserted

\* a.partial_cmp(&b)
Compare ==
    /\ op = "new"
    /\ \E a \in CmpFrames, b \in CmpFrames :
        /\ op' = "partial_cmp"
        /\ input' = a
        /\ other' = b
        /\ cmp' = RespFrame_partial_cmp(a, b)
        /\ result' = NoResult /\ decoded' = NoDecode
        /\ vec' = <<>> /\ btree' = BTreeMap_new /\ inserted' = <<>>
        /\ UNCHANGED overflow_checks

\* RespFrame::decode(&bytes) on the bytes the last encode returned
Decode ==
    /\ op \in EncodeOps
    /\ result.ok
    /\ decoded' = decode(result.bytes)
    /\ op' = "decode"
    /\ UNCHANGED <<overflow_checks, input, other, result, vec, btree, inserted, cmp>>

Next ==
    \/ EncodeSimpleString
    \/ EncodeSimpleError
    \/ EncodeInteger
    \/ EncodeBulkString
    \/ EncodeBulkError
    \/ EncodeNull
    \/ EncodeNullArray
    \/ EncodeNullBulkString
    \/ EncodeBoolean
    \/ EncodeDouble
    \/ New
    \/ Push
    \/ Wrap
    \/ EncodeArray
    \/ Insert
    \/ EncodeMap
    \/ EncodeSet
    \/ Compare
    \/ Decode

Spec == Init /\ [][Next]_vars

----------------------------------------------------------------------------
(* What the properties are stated with *)

\* ds is the decimal numeral of n: digits, no leading zero, with value n.
IsDecimalOf(ds, n) ==
    /\ ds # <<>>
    /\ Len(ds) <= 9
    /\ AllDigits(ds)
    /\ Len(ds) > 1 => ds[1] # Ord("0")
    /\ DecVal(ds) = n

\* bs starts with the byte tag, the decimal numeral of n, and CRLF.
HeaderIs(bs, tag, n) ==
    /\ Len(bs) >= 4
    /\ bs[1] = Ord(tag)
    /\ find_crlf(bs, 2) > 0
    /\ IsDecimalOf(SubSeq(bs, 2, find_crlf(bs, 2) - 1), n)

\* What follows the first CRLF of bs.
AfterHeader(bs) == SubSeq(bs, find_crlf(bs, 2) + 2, Len(bs))

RECURSIVE ConcatAll(_)
\* The byte sequences of ss, one after the other.
ConcatAll(ss) == IF ss = <<>> THEN <<>> ELSE ss[1] \o ConcatAll(Tail(ss))

\* a comes before b in lexicographic order of bytes.
LexLess(a, b) ==
    \E i \in 1..(Len(a) + 1) :
        /\ i <= Len(b)
        /\ \A j \in 1..(i - 1) : a[j] = b[j]
        /\ i = Len(a) + 1 \/ a[i] < b[i]

HasCROrLF(s) == \E i \in 1..Len(s) : s[i] \in {Ord("\r"), Ord("\n")}

RECURSIVE HasNaN(_)
\* Whether a NaN double occurs in a frame.
HasNaN(f) ==
    CASE Variant(f) = "Double" -> Payload(f).cls = "nan"
      [] Variant(f) = "Array" -> \E i \in 1..Len(Payload(f)) : HasNaN(Payload(f)[i])
      [] Variant(f) \in {"Map", "Set"} -> \E i \in 1..Len(Payload(f)) : HasNaN(Payload(f)[i][2])
      [] OTHER -> FALSE

\* The variants in the order enum RespFrame declares them.
VariantOrder ==
    <<"SimpleString", "SimpleError", "Integer", "BulkString", "Array", "Null", "NullArray",
      "NullBulkString", "Boolean", "Double", "BulkError", "Map", "Set">>
VariantRank(f) == CHOOSE i \in 1..Len(VariantOrder) : VariantOrder[i] = Variant(f)

----------------------------------------------------------------------------
(* The properties *)

\* C1: for every byte sequence p, valid UTF-8 or not, empty or not,
\* encode(BulkString(p)) returns '$', the decimal length of p, CRLF, the bytes
\* of p unchanged, CRLF.
C1_BulkStringPassesBytes ==
    op = "BulkString_encode" =>
        /\ result.ok
        /\ HeaderIs(result.bytes, "$", Len(Payload(input)))
        /\ AfterHeader(result.bytes) = Payload(input) \o CRLF

\* C2: for every i64 n, i64::MIN included, encode(n) returns ':', one sign
\* character ('-' when n < 0, '+' otherwise), the decimal digits of the
\* absolute value of n, CRLF.
C2_IntegerSignAndMagnitude ==
    op = "i64_encode" =>
        /\ result.ok
        /\ result.bytes =
              Lit(<<":">>) \o (IF Payload(input).neg THEN Lit(<<"-">>) ELSE Lit(<<"+">>))
              \o u64_to_string(Payload(input).mag) \o CRLF

\* C3: for every frame v, encode(v) returns bytes, and decoding them is
\* Complete with a frame equal to v that took all of the bytes.
C3_RoundTrip ==
    /\ op \in EncodeOps => result.ok
    /\ op = "decode" =>
          /\ decoded.kind = "Complete"
          /\ RespFrame_eq(decoded.frame, input)
          /\ decoded.consumed = Len(result.bytes)

\* C4: a SimpleString or SimpleError whose text holds CR or LF is never
\* turned into bytes, so every encoding of the two variants holds exactly one
\* CRLF, its last two bytes.
C4_NoLineBreakInSimpleText ==
    op \in {"SimpleString_encode", "SimpleError_encode"} =>
        /\ HasCROrLF(Payload(input)) => ~result.ok
        /\ result.ok =>
              /\ find_crlf(result.bytes, 1) = Len(result.bytes) - 1
              /\ ~HasCROrLF(SubSeq(result.bytes, 1, Len(result.bytes) - 2))

\* C5: for a double x that is a number (the claim read on the finite values,
\* where both notations exist), encode(x) is in plain decimal notation
\* exactly when x = 0 or 1e-8 <= |x| < 1e8, and in exponential notation (with
\* an 'e') otherwise; |x| = 1e8 is exponential and 0 is plain.
C5_DoubleNotation ==
    (op = "f64_encode" /\ Payload(input).cls \in {"zero", "num"}) =>
        LET x == Payload(input)
            plain == \/ x.cls = "zero"
                     \/ /\ f64_partial_cmp(f64_abs(x), Lit_1em8) \in {"Greater", "Equal"}
                        /\ f64_partial_cmp(f64_abs(x), Lit_1e8) = "Less"
            exponential == \E i \in 1..Len(result.bytes) : result.bytes[i] = Ord("e")
        IN  result.ok /\ (plain <=> ~exponential)

\* The keys inserted are pairwise different.
DistinctKeys(h) == \A i, j \in 1..Len(h) : i # j => h[i][1] # h[j][1]

\* The entries h in ascending lexicographic order of their keys.
InKeyOrder(h) ==
    CHOOSE s \in [1..Len(h) -> {h[i] : i \in 1..Len(h)}] :
        \A i, j \in 1..Len(h) : i < j => LexLess(s[i][1], s[j][1])

\* C6: a Map built by inserting entries with distinct keys, in any order,
\* encodes to '%', the number of entries, CRLF, then for each key in
\* ascending lexicographic order the key as a SimpleString followed by the
\* value's own encoding (and does not return when a value's encode does not).
C6_MapEncodesInKeyOrder ==
    (op = "Map_encode" /\ DistinctKeys(inserted)) =>
        LET es == InKeyOrder(inserted)
            n == Len(es)
            encs == [i \in 1..n |-> RespFrame_encode(es[i][2])]
        IN  IF \A i \in 1..n : encs[i].ok
            THEN /\ result.ok
                 /\ HeaderIs(result.bytes, "%", n)
                 /\ AfterHeader(result.bytes) =
                       ConcatAll([i \in 1..n |->
                           Lit(<<"+">>) \o es[i][1] \o CRLF \o encs[i].bytes])
            ELSE ~result.ok

C6_Witness ==
    /\ op = "Map_encode"
    /\ result.ok
    /\ DistinctKeys(inserted)
    /\ Len(inserted) = 3
    /\ LexLess(inserted[3][1], inserted[2][1])
    /\ LexLess(inserted[2][1], inserted[1][1])

\* C7: the elements a Set emits are pairwise different frames, and the count
\* after '~' is the number of distinct elements.
C7_SetElementsDistinct ==
    (op = "Set_encode" /\ result.ok) =>
        LET m == Payload(input)
        IN  /\ \A i, j \in 1..Len(m) : i # j => ~RespFrame_eq(m[i][2], m[j][2])
            /\ HeaderIs(result.bytes, "~", Cardinality({m[i][2] : i \in 1..Len(m)}))

\* C8: two Sets that hold the same elements encode to the same bytes: the
\* bytes do not change when the same elements are held under the keys in
\* another arrangement.
C8_SetBytesFromElementsOnly ==
    op = "Set_encode" =>
        LET m == Payload(input)
            n == Len(m)
        IN  \A p \in Permutations(1..n) :
                Set_encode([i \in 1..n |-> <<m[i][1], m[p[i]][2]>>]) = result

\* The laws of a total order for the comparison of a with b.
ComparesTotally(a, b, c) ==
    /\ c \in {"Less", "Equal", "Greater"}
    /\ VariantRank(a) < VariantRank(b) => c = "Less"
    /\ VariantRank(a) > VariantRank(b) => c = "Greater"
    /\ RespFrame_partial_cmp(b, a) = Reverse(c)
    /\ (c = "Equal") <=> RespFrame_eq(a, b)

C10_ArrayIsHeaderThenElements ==
    op = "Array_encode" =>
        LET xs == Payload(input)
            encs == [i \in 1..Len(xs) |-> RespFrame_encode(xs[i])]
        IN  IF \A i \in 1..Len(xs) : encs[i].ok
            THEN /\ result.ok
                 /\ HeaderIs(result.bytes, "*", Len(xs))
                 /\ AfterHeader(result.bytes) =
                       ConcatAll([i \in 1..Len(xs) |-> encs[i].bytes])
            ELSE ~result.ok

C10_Witness ==
    /\ op = "Array_encode"
    /\ result.ok
    /\ Len(Payload(input)) = 2
    /\ Depth(input) = 3

=============================================================================
